---- MODULE Spec2Model ----
(***************************************************************************)
(* Alert rule evaluation and lifecycle engine of the telemetry service     *)
(* (services/telemetry/processing/alerts.go) together with the tables it   *)
(* reads and writes (services/telemetry/db/migrations.go) and the HTTP     *)
(* ingestion handler that fills the metrics table (api.Router.ingest).     *)
(*                                                                         *)
(* Every store call (QueryRow, Query, Exec) is one atomic step.  The code   *)
(* a goroutine runs between two store calls reads only its own locals and  *)
(* the snapshot it holds the read lock on, and is part of the step that    *)
(* ends with the next store call.  float64 samples and thresholds are      *)
(* whole numbers here: the four comparisons agree on them and "%.2f"       *)
(* prints them with ".00".                                                 *)
(***************************************************************************)
EXTENDS Integers, Sequences, FiniteSets, TLC

VARIABLES
    repo,           \* table alert_rules: rule id -> row
    metrics,        \* table metrics: <<machine, metric>> -> latest value or Nil
    alerts,         \* table alerts: sequence of rows, the index is the row id
    now,            \* the store's clock, read by NOW()
    orphans,        \* history: the alerts that were open when their rule was disabled or deleted
    rules,          \* AlertService.rules, the in-memory snapshot
    readers,        \* holders of AlertService.mu.RLock
    pc,             \* per CheckMetric goroutine: position in the call
    call,           \* per CheckMetric goroutine: [machine, metric, value, i]
    hist,           \* per CheckMetric goroutine: what the current call met and did
    loopPc,         \* StartBackgroundChecks/resolveAlerts: position
    lookup,         \* resolveAlerts: local map rules[ruleID]
    rows,           \* resolveAlerts: rows of the open-alert query not yet scanned
    begun,          \* history: the orphans when the sweep began, by what happened to their rule
    active,         \* history: resolveAlerts calls entered and not yet returned
    notifications,  \* sendNotifications goroutines, in the order they were started
    down,           \* the store is unreachable: every call to it returns an error
    ctx,            \* the context StartBackgroundChecks was given
    cancelAt,       \* history: where the loop stood when ctx was cancelled, and whether the
                    \* store call it was in then has returned
    ticker,         \* ticker.C, a channel of capacity 1: ticks waiting to be received
    webhook,        \* cfg.SlackWebhook is set
    loadPc,         \* loadRules: position
    pending,        \* loadRules: result rows not yet read
    loaded,         \* loadRules: the local slice `rules`
    loadErr,        \* history: where the running or last load failed
    queried,        \* history: the result of the running or last load's query
    catalog,        \* table alert_rules as seedAlertRules reads and writes it: rows by content
    seedPc,         \* seedAlertRules: the seed the loop is at, and the store call it makes next
    runs            \* calls of seedAlertRules started so far

storeVars == <<repo, metrics, alerts, now, orphans>>
evalVars  == <<pc, call, hist>>
sweepVars == <<loopPc, lookup, rows, begun, active>>
envVars   == <<down, ctx, cancelAt, ticker, webhook>>
loadVars  == <<loadPc, pending, loaded, loadErr, queried>>
seedVars  == <<catalog, seedPc, runs>>
vars == <<repo, metrics, alerts, now, orphans, rules, readers, pc, call, hist,
          loopPc, lookup, rows, begun, active, notifications,
          down, ctx, cancelAt, ticker, webhook, loadPc, pending, loaded, loadErr, queried,
          catalog, seedPc, runs>>

----------------------------------------------------------------------------
(* Bounds of the model *)

MaxAlerts == 2
MaxClock == 2
NumWorkers == 2
MaxRuns == 3

Workers == 1..NumWorkers
Machines == {"m1"}
RuleIds == {"r1", "r2"}
MetricNames == {"temperature", "pressure"}
SampledMetrics == {"temperature"}
Values == {68, 71, 85}
PostedThresholds == {71}
Operators == {">", "<", ">=", "<=", "=="}
Nil == 0 - 1

----------------------------------------------------------------------------
(* The store *)

\* seedAlertRules: the first two seeded rows, both on temperature
SeedRow(r) ==
    IF r = "r1"
    THEN [present |-> TRUE, enabled |-> TRUE, name |-> "Motor Temperature High",
          metric_name |-> "temperature", operator |-> ">",
          threshold_value |-> 70, severity |-> "warning"]
    ELSE [present |-> TRUE, enabled |-> TRUE, name |-> "Motor Temperature Critical",
          metric_name |-> "temperature", operator |-> ">",
          threshold_value |-> 80, severity |-> "critical"]

\* seedAlertRules: the slice `rules` the loop ranges over, in its order
SeedRules == <<SeedRow("r1"), SeedRow("r2")>>

\* mutant of Exists: the existence query finds nothing
ExistsNever(table, name, metricName) == FALSE

\* SELECT EXISTS(SELECT 1 FROM alert_rules WHERE name = $1 AND metric_name = $2)
Exists(table, name, metricName) ==
    \E k \in DOMAIN table : table[k].name = name /\ table[k].metric_name = metricName

\* type AlertRule, as scanned from one row of alert_rules
AlertRule(r, row) ==
    [ID |-> r, Name |-> row.name, MetricName |-> row.metric_name,
     ThresholdValue |-> row.threshold_value, Operator |-> row.operator,
     Severity |-> row.severity]

\* SELECT ... FROM alert_rules WHERE enabled = true
EnabledIds(table) == {r \in RuleIds : table[r].present /\ table[r].enabled}

\* all orders in which a query without ORDER BY may return the ids in S
Orders(S) ==
    {s \in [1..Cardinality(S) -> S] : \A i, j \in 1..Cardinality(S) : s[i] = s[j] => i = j}

\* loadRules: the slices the loop over the result rows may build
LoadRules(table) ==
    {[i \in 1..Len(o) |-> AlertRule(o[i], table[o[i]])] : o \in Orders(EnabledIds(table))}

----------------------------------------------------------------------------
(* Pure parts of the engine *)

\* mutant of Compare: ">=" and "<=" compare strictly
CompareStrict(operator, value, threshold) ==
    CASE operator = ">"  -> value > threshold
      [] operator = "<"  -> value < threshold
      [] operator = ">=" -> value > threshold
      [] operator = "<=" -> value < threshold
      [] OTHER -> FALSE

\* the switch on rule.Operator of CheckMetric and of resolveAlerts
Compare(operator, value, threshold) ==
    CASE operator = ">"  -> value > threshold
      [] operator = "<"  -> value < threshold
      [] operator = ">=" -> value >= threshold
      [] operator = "<=" -> value <= threshold
      [] OTHER -> FALSE

\* CheckMetric, one iteration: does the rule call createAlert for the sample
Triggered(rule, metricName, value) ==
    /\ rule.MetricName = metricName
    /\ Compare(rule.Operator, value, rule.ThresholdValue)

\* mutant of NextFiring: the loop ends after the first rule that called createAlert
NextFiringOnce(snapshot, from, metricName, value) ==
    LET firing == {j \in 1..Len(snapshot) : Triggered(snapshot[j], metricName, value)} IN
    IF firing = {} \/ from > 1 THEN Len(snapshot) + 1
    ELSE CHOOSE j \in firing : \A k \in firing : j <= k

\* CheckMetric: the first index from `from` on whose rule calls createAlert, Len + 1 if none
NextFiring(snapshot, from, metricName, value) ==
    LET firing == {j \in from..Len(snapshot) : Triggered(snapshot[j], metricName, value)} IN
    IF firing = {} THEN Len(snapshot) + 1
    ELSE CHOOSE j \in firing : \A k \in firing : j <= k

\* fmt.Sprintf("%.2f", v) for a whole number v >= 0
Fmt2(v) == ToString(v) \o ".00"

\* mutant of Message: the text always starts with the metric name
MessageMetric(rule, value) ==
    rule.MetricName
        \o " - value: " \o Fmt2(value) \o " (threshold: " \o Fmt2(rule.ThresholdValue) \o ")"

\* createAlert: the message text
Message(rule, value) ==
    (IF rule.Name = "" THEN rule.MetricName ELSE rule.Name)
        \o " - value: " \o Fmt2(value) \o " (threshold: " \o Fmt2(rule.ThresholdValue) \o ")"

\* mutant of OpenAlertIds: the query asks for acknowledged = true
AckedAlertIds(table, machineID, ruleID) ==
    {a \in DOMAIN table : /\ table[a].machine_id = machineID
                          /\ table[a].rule_id = ruleID
                          /\ table[a].acknowledged}

\* mutant of OpenAlertIds: the query leaves out rule_id
OpenAlertIdsAnyRule(table, machineID, ruleID) ==
    {a \in DOMAIN table : /\ table[a].machine_id = machineID
                          /\ ~table[a].acknowledged}

\* SELECT id FROM alerts WHERE machine_id = $1 AND rule_id = $2 AND acknowledged = false
OpenAlertIds(table, machineID, ruleID) ==
    {a \in DOMAIN table : /\ table[a].machine_id = machineID
                          /\ table[a].rule_id = ruleID
                          /\ ~table[a].acknowledged}

\* mutant of InsertAlert: the insert is skipped when the pair has an open alert
InsertAlertIfNone(table, machineID, rule, value) ==
    IF \E a \in DOMAIN table : /\ table[a].machine_id = machineID
                               /\ table[a].rule_id = rule.ID
                               /\ ~table[a].acknowledged
    THEN table
    ELSE Append(table, [machine_id |-> machineID, rule_id |-> rule.ID,
                        severity |-> rule.Severity, message |-> Message(rule, value),
                        acknowledged |-> FALSE, acknowledged_by |-> "",
                        acknowledged_at |-> 0])

\* INSERT INTO alerts (machine_id, rule_id, severity, message); the other columns default
InsertAlert(table, machineID, rule, value) ==
    Append(table, [machine_id |-> machineID, rule_id |-> rule.ID,
                   severity |-> rule.Severity, message |-> Message(rule, value),
                   acknowledged |-> FALSE, acknowledged_by |-> "",
                   acknowledged_at |-> 0])

\* mutant of Acknowledge: the UPDATE leaves acknowledged_by as it is
AcknowledgeKeepBy(table, id, by, at) ==
    [table EXCEPT ![id] = [@ EXCEPT !.acknowledged = TRUE,
                                    !.acknowledged_at = at]]

\* mutant of Acknowledge: the UPDATE also empties the message
AcknowledgeAndClear(table, id, by, at) ==
    [table EXCEPT ![id] = [@ EXCEPT !.acknowledged = TRUE,
                                    !.acknowledged_by = by,
                                    !.acknowledged_at = at,
                                    !.message = ""]]

\* mutant of Acknowledge: the UPDATE flips the flag
AcknowledgeToggle(table, id, by, at) ==
    [table EXCEPT ![id] = [@ EXCEPT !.acknowledged = ~@,
                                    !.acknowledged_by = by,
                                    !.acknowledged_at = at]]

\* UPDATE alerts SET acknowledged = true, acknowledged_by = $by, acknowledged_at = NOW() WHERE id = $1
Acknowledge(table, id, by, at) ==
    [table EXCEPT ![id] = [@ EXCEPT !.acknowledged = TRUE,
                                    !.acknowledged_by = by,
                                    !.acknowledged_at = at]]

\* SELECT value FROM metrics WHERE machine_id = .. AND metric_name = .. ORDER BY time DESC LIMIT 1
LatestValue(mtable, machineID, metricName) ==
    IF <<machineID, metricName>> \in DOMAIN mtable
    THEN mtable[<<machineID, metricName>>]
    ELSE Nil

\* resolveAlerts: the open-alert query, alerts JOIN alert_rules LEFT JOIN LATERAL metrics
OpenAlertRows(table, rtable, mtable) ==
    {[id |-> a, machine_id |-> table[a].machine_id, rule_id |-> table[a].rule_id,
      value |-> LatestValue(mtable, table[a].machine_id,
                            rtable[table[a].rule_id].metric_name)] :
        a \in {b \in DOMAIN table : ~table[b].acknowledged /\ rtable[table[b].rule_id].present}}

\* resolveAlerts: the map built from s.rules under the read lock
Lookup(snapshot) ==
    [r \in {snapshot[i].ID : i \in DOMAIN snapshot} |->
        snapshot[CHOOSE i \in DOMAIN snapshot :
                    snapshot[i].ID = r /\ \A j \in DOMAIN snapshot : snapshot[j].ID = r => j <= i]]

\* mutant of Resolves: the UPDATE runs while the rule is still triggered
ResolvesInverted(map, row) ==
    /\ row.rule_id \in DOMAIN map
    /\ row.value # Nil
    /\ Compare(map[row.rule_id].Operator, row.value, map[row.rule_id].ThresholdValue)

\* mutant of Resolves: a rule missing from the map counts as cleared
ResolvesMissing(map, row) ==
    \/ row.rule_id \notin DOMAIN map
    \/ /\ row.value # Nil
       /\ ~Compare(map[row.rule_id].Operator, row.value, map[row.rule_id].ThresholdValue)

\* mutant of Resolves: the UPDATE runs for the rows whose rule is not in the map
ResolvesMissingRule(map, row) == row.rule_id \notin DOMAIN map

\* mutant of Resolves: a missing sample counts as cleared
ResolvesUnknown(map, row) ==
    /\ row.rule_id \in DOMAIN map
    /\ \/ row.value = Nil
       \/ ~Compare(map[row.rule_id].Operator, row.value, map[row.rule_id].ThresholdValue)

\* resolveAlerts, one row: does the row lead to the UPDATE
Resolves(map, row) ==
    /\ row.rule_id \in DOMAIN map
    /\ row.value # Nil
    /\ ~Compare(map[row.rule_id].Operator, row.value, map[row.rule_id].ThresholdValue)

----------------------------------------------------------------------------
(* Initial states *)

IdleCall == [machine |-> "", metric |-> "", value |-> 0, i |-> 0]
NoHist == [clean |-> FALSE, made |-> {}, tried |-> <<>>, checked |-> ""]
NoLookup == Lookup(<<>>)
NotBegun == [deleted |-> {}, disabled |-> {}]
NotCancelled == [position |-> "", returned |-> FALSE]

\* the engine's own state when NewAlertService has returned
Fresh ==
    /\ readers = {}
    /\ pc = [w \in Workers |-> "idle"]
    /\ call = [w \in Workers |-> IdleCall]
    /\ hist = [w \in Workers |-> NoHist]
    /\ loopPc = "idle"
    /\ lookup = NoLookup
    /\ rows = {}
    /\ begun = NotBegun
    /\ active = 0
    /\ ctx = "live"
    /\ cancelAt = NotCancelled
    /\ ticker = 0
    /\ loadPc = "idle"
    /\ pending = <<>>
    /\ loaded = <<>>
    /\ loadErr = ""
    /\ queried = <<>>

\* the tables after Migrate, apart from alert_rules, with a store that is reachable
\* seedAlertRules is not running
SeedIdle == [i |-> 0, at |-> "idle"]

\* the tables other than alert_rules when Migrate has returned
Stored ==
    /\ metrics = [k \in Machines \X SampledMetrics |-> Nil]
    /\ alerts = <<>>
    /\ now = 1
    /\ orphans = {}
    /\ notifications = <<>>
    /\ down = FALSE

Migrated ==
    /\ Stored
    /\ catalog = SeedRules
    /\ seedPc = SeedIdle
    /\ runs = 0

\* Migrate has run and NewAlertService has loaded the rules; no notification sink
Started ==
    /\ Migrated
    /\ rules \in LoadRules(repo)
    /\ webhook = FALSE
    /\ Fresh

\* Migrate has seeded the rules
Init ==
    /\ repo = [r \in RuleIds |-> SeedRow(r)]
    /\ Started

\* rules as POST /api/v1/rules stores them: any metric, any operator string
PostedRows ==
    {[present |-> TRUE, enabled |-> TRUE, name |-> "posted", metric_name |-> n,
      operator |-> o, threshold_value |-> t, severity |-> "warning"] :
        n \in MetricNames, o \in Operators, t \in PostedThresholds}

\* rows of alert_rules a seeding run can meet: the seeds as inserted, a seed whose columns
\* were changed since, a row that shares only the metric of a seed, and a row that shares
\* only the name of a seed
CatalogRows ==
    { SeedRow("r1"), SeedRow("r2"),
      [SeedRow("r1") EXCEPT !.severity = "info", !.enabled = FALSE, !.threshold_value = 71],
      [SeedRow("r1") EXCEPT !.name = ""],
      [SeedRow("r2") EXCEPT !.metric_name = "vibration"] }

\* number of rows of a table with the given name and metric
Count(table, name, metricName) ==
    Cardinality({k \in DOMAIN table :
                    table[k].name = name /\ table[k].metric_name = metricName})

\* the tables a first run of seedAlertRules can meet: empty after CREATE TABLE, or what
\* earlier runs and changes to single rows left, with no pair of name and metric twice
Catalogs ==
    {t \in {<<>>} \cup {<<a>> : a \in CatalogRows} \cup {<<a, b>> : a, b \in CatalogRows} :
        \A k \in DOMAIN t : Count(t, t[k].name, t[k].metric_name) = 1}

\* Migrate has created the tables and is about to seed them
InitSeed ==
    /\ repo = [r \in RuleIds |-> SeedRow(r)]
    /\ Stored
    /\ catalog \in Catalogs
    /\ seedPc = SeedIdle
    /\ runs = 0
    /\ rules = <<>>
    /\ webhook = FALSE
    /\ Fresh

InitEval ==
    /\ repo \in [RuleIds -> PostedRows]
    /\ Started

----------------------------------------------------------------------------
(* CheckMetric and createAlert, one goroutine per incoming sample *)

\* CheckMetric: the loop runs on from index `from` until a rule calls createAlert or it is over
Resume(w, machineID, metricName, value, from) ==
    LET j == NextFiring(rules, from, metricName, value) IN
    /\ call' = [call EXCEPT ![w] =
                    [machine |-> machineID, metric |-> metricName, value |-> value, i |-> j]]
    /\ pc' = [pc EXCEPT ![w] = IF j <= Len(rules) THEN "createAlert" ELSE "return"]

\* CheckMetric: entry, s.mu.RLock(), the loop up to its first createAlert
CheckMetric(w, machineID, metricName, value) ==
    /\ pc[w] = "idle"
    /\ readers' = readers \cup {w}
    /\ Resume(w, machineID, metricName, value, 1)
    /\ hist' = [hist EXCEPT ![w] =
                    [clean |-> \A a \in DOMAIN alerts :
                                    alerts[a].machine_id = machineID => alerts[a].acknowledged,
                     made |-> {}, tried |-> <<>>, checked |-> ""]]
    /\ UNCHANGED <<storeVars, rules, sweepVars, notifications, envVars, loadVars, seedVars>>

\* createAlert: what Scan(&existingID) returns: nil, pgx.ErrNoRows or the store's error
ExistsErr(table, unreachable, machineID, ruleID) ==
    IF unreachable THEN "error"
    ELSE IF OpenAlertIds(table, machineID, ruleID) # {} THEN "nil" ELSE "none"

\* createAlert: the existence query; err == nil returns, anything else goes on to the insert
createAlertQuery(w) ==
    LET err == ExistsErr(alerts, down, call[w].machine, rules[call[w].i].ID) IN
    /\ pc[w] = "createAlert"
    /\ IF err = "nil"
       THEN Resume(w, call[w].machine, call[w].metric, call[w].value, call[w].i + 1)
       ELSE /\ pc' = [pc EXCEPT ![w] = "insert"]
            /\ call' = call
    /\ hist' = [hist EXCEPT ![w].checked = IF err = "nil" THEN "" ELSE err]
    /\ UNCHANGED <<storeVars, rules, readers, sweepVars, notifications, envVars, loadVars, seedVars>>

\* mutant of AfterCreateAlert: a rule whose insert failed is tried again
AfterCreateAlertRetry(i, inserted) == IF inserted THEN i + 1 ELSE i

\* CheckMetric: createAlert has returned, the loop goes on with the next rule
AfterCreateAlert(i, inserted) == i + 1

\* mutant of Dispatch: the goroutine is started whether or not the insert succeeded
DispatchAlways(started, inserted, severity, message) ==
    Append(started, [severity |-> severity, message |-> message, state |-> "started"])

\* createAlert: `go s.sendNotifications(rule.Severity, message)`, reached only past the
\* return on the insert's error
Dispatch(started, inserted, severity, message) ==
    IF inserted
    THEN Append(started, [severity |-> severity, message |-> message, state |-> "started"])
    ELSE started

\* createAlert: the insert; on its error the log line and return, else
\* go s.sendNotifications; back in the loop
createAlertInsert(w) ==
    LET rule == rules[call[w].i]
        inserted == ~down
    IN  /\ pc[w] = "insert"
        /\ inserted => Len(alerts) < MaxAlerts
        /\ alerts' = IF inserted
                     THEN InsertAlert(alerts, call[w].machine, rule, call[w].value)
                     ELSE alerts
        /\ notifications' = Dispatch(notifications, inserted, rule.Severity,
                                     Message(rule, call[w].value))
        /\ hist' = [hist EXCEPT ![w].made = IF inserted THEN @ \cup {Len(alerts) + 1} ELSE @,
                                ![w].tried = Append(@, call[w].i),
                                ![w].checked = ""]
        /\ Resume(w, call[w].machine, call[w].metric, call[w].value,
                  AfterCreateAlert(call[w].i, inserted))
        /\ UNCHANGED <<repo, metrics, now, orphans, rules, readers, sweepVars, envVars,
                       loadVars, seedVars>>

\* CheckMetric: the loop is over, the deferred s.mu.RUnlock()
CheckMetricReturn(w) ==
    /\ pc[w] = "return"
    /\ readers' = readers \ {w}
    /\ pc' = [pc EXCEPT ![w] = "idle"]
    /\ call' = [call EXCEPT ![w] = IdleCall]
    /\ hist' = [hist EXCEPT ![w] = NoHist]
    /\ UNCHANGED <<storeVars, rules, sweepVars, notifications, envVars, loadVars, seedVars>>

----------------------------------------------------------------------------
(* StartBackgroundChecks and resolveAlerts, one goroutine *)

\* mutant of Receives: the tick is also taken while a sweep runs
ReceivesWhileSweeping(position) == position \in {"idle", "query", "rows"}

\* StartBackgroundChecks: the loop is in its select, nothing else receives from ticker.C
Receives(position) == position = "idle"

\* mutant of Done: the select never takes the ctx.Done() case
DoneNever(c) == FALSE

\* StartBackgroundChecks: ctx.Done() is closed
Done(c) == c = "cancelled"

\* mutant of CallFails: an unreachable store goes unnoticed
CallFailsOnCancelOnly(unreachable, c) == c = "cancelled"

\* s.db.Query(ctx, ..) and s.db.Exec(ctx, ..): the call returns an error when the store is
\* unreachable or ctx is cancelled before the call is over
CallFails(unreachable, c) == unreachable \/ c = "cancelled"

\* history: a store call of the sweep returns
Returns(c) == [c EXCEPT !.returned = (@ \/ c.position # "")]

\* StartBackgroundChecks: case <-ticker.C; resolveAlerts builds its map under the read lock
resolveAlerts ==
    /\ Receives(loopPc)
    /\ loopPc' = "query"
    /\ ticker' = 0
    /\ active' = active + 1
    /\ lookup' = Lookup(rules)
    /\ begun' = [deleted |-> {a \in orphans : ~repo[alerts[a].rule_id].present},
                 disabled |-> {a \in orphans : repo[alerts[a].rule_id].present}]
    /\ UNCHANGED <<storeVars, rules, readers, evalVars, rows, notifications, down, ctx, cancelAt,
                   webhook, loadVars, seedVars>>

\* resolveAlerts: the open-alert query; on its error resolveAlerts returns
resolveQuery ==
    /\ loopPc = "query"
    /\ IF CallFails(down, ctx)
       THEN /\ loopPc' = "idle"
            /\ rows' = {}
            /\ lookup' = NoLookup
            /\ begun' = NotBegun
            /\ active' = active - 1
       ELSE /\ loopPc' = "rows"
            /\ rows' = OpenAlertRows(alerts, repo, metrics)
            /\ UNCHANGED <<lookup, begun, active>>
    /\ cancelAt' = Returns(cancelAt)
    /\ UNCHANGED <<storeVars, rules, readers, evalVars, notifications, down, ctx, ticker, webhook,
                   loadVars, seedVars>>

\* resolveAlerts: what rows.Next() may leave to read after `row`: the other rows, or nothing
\* when the result can no longer be read
Remaining(result, row, failing) ==
    IF failing THEN {result \ {row}, {}} ELSE {result \ {row}}

\* resolveAlerts: one iteration of rows.Next(), with its UPDATE when the condition cleared
resolveRow ==
    /\ loopPc = "rows"
    /\ \E row \in rows :
        /\ rows' \in Remaining(rows, row, CallFails(down, ctx))
        /\ IF Resolves(lookup, row) /\ ~CallFails(down, ctx)
           THEN alerts' = Acknowledge(alerts, row.id, "system", now)
           ELSE alerts' = alerts
    /\ cancelAt' = Returns(cancelAt)
    /\ UNCHANGED <<repo, metrics, now, orphans, rules, readers, evalVars, loopPc, lookup, begun,
                   active, notifications, down, ctx, ticker, webhook, loadVars, seedVars>>

\* resolveAlerts returns, the loop waits for the next tick
resolveReturn ==
    /\ loopPc = "rows"
    /\ rows = {}
    /\ loopPc' = "idle"
    /\ lookup' = NoLookup
    /\ begun' = NotBegun
    /\ active' = active - 1
    /\ UNCHANGED <<storeVars, rules, readers, evalVars, rows, notifications, envVars, loadVars, seedVars>>

\* StartBackgroundChecks: case <-ctx.Done(): return
loopExit ==
    /\ loopPc = "idle"
    /\ Done(ctx)
    /\ loopPc' = "done"
    /\ UNCHANGED <<storeVars, rules, readers, evalVars, lookup, rows, begun, active,
                   notifications, envVars, loadVars, seedVars>>

\* the ticker sends while the loop is inside resolveAlerts: the tick waits in ticker.C, a
\* further tick is dropped
TickerFire ==
    /\ loopPc \in {"query", "rows"}
    /\ ticker = 0
    /\ ticker' = 1
    /\ UNCHANGED <<storeVars, rules, readers, evalVars, sweepVars, notifications, down, ctx,
                   cancelAt, webhook, loadVars, seedVars>>

\* the owner of ctx cancels it
Cancel ==
    /\ ctx = "live"
    /\ ctx' = "cancelled"
    /\ cancelAt' = [position |-> loopPc, returned |-> FALSE]
    /\ UNCHANGED <<storeVars, rules, readers, evalVars, sweepVars, notifications, down, ticker,
                   webhook, loadVars, seedVars>>

----------------------------------------------------------------------------
(* loadRules *)

\* mutant of CanLock: the writer does not wait for the readers
CanLockAlways(holders) == TRUE

\* s.mu.Lock() returns once no reader holds the lock
CanLock(holders) == holders = {}

\* loadRules: the query; on its error the log line and return
loadQuery ==
    /\ loadPc = "idle"
    /\ IF down
       THEN /\ loadErr' = "query"
            /\ UNCHANGED <<loadPc, pending, loaded, queried>>
       ELSE /\ pending' \in LoadRules(repo)
            /\ queried' = pending'
            /\ loaded' = <<>>
            /\ loadPc' = "rows"
            /\ loadErr' = ""
    /\ UNCHANGED <<storeVars, rules, readers, evalVars, sweepVars, notifications, envVars,
                   seedVars>>

\* loadRules: one rows.Next(); a result that can no longer be read ends the loop like the
\* last row does, rows.Err() is not looked at
loadRow ==
    /\ loadPc = "rows"
    /\ IF down
       THEN /\ loadPc' = "lock"
            /\ pending' = <<>>
            /\ loadErr' = "rows"
            /\ loaded' = loaded
       ELSE IF pending = <<>>
       THEN /\ loadPc' = "lock"
            /\ UNCHANGED <<pending, loaded, loadErr>>
       ELSE /\ loaded' = Append(loaded, Head(pending))
            /\ pending' = Tail(pending)
            /\ UNCHANGED <<loadPc, loadErr>>
    /\ UNCHANGED <<storeVars, rules, readers, evalVars, sweepVars, notifications, envVars,
                   queried, seedVars>>

\* loadRules: s.mu.Lock(); s.rules = rules; s.mu.Unlock()
loadInstall ==
    /\ loadPc = "lock"
    /\ CanLock(readers)
    /\ rules' = loaded
    /\ loaded' = <<>>
    /\ loadPc' = "idle"
    /\ UNCHANGED <<storeVars, readers, evalVars, sweepVars, notifications, envVars, pending,
                   loadErr, queried, seedVars>>

----------------------------------------------------------------------------
(* The engine's collaborators *)

\* api.Router.ingest: INSERT INTO metrics, the sample becomes the latest one
ingest(machineID, metricName, value) ==
    /\ metrics[<<machineID, metricName>>] # value
    /\ metrics' = [metrics EXCEPT ![<<machineID, metricName>>] = value]
    /\ UNCHANGED <<repo, alerts, now, orphans, rules, readers, evalVars, sweepVars, notifications,
                   envVars, loadVars, seedVars>>

\* time passes on the store's clock
Tick ==
    /\ now < MaxClock
    /\ now' = now + 1
    /\ UNCHANGED <<repo, metrics, alerts, orphans, rules, readers, evalVars, sweepVars,
                   notifications, envVars, loadVars, seedVars>>

\* an operator acknowledges an open alert
OperatorAcknowledge(id) ==
    /\ id \in DOMAIN alerts
    /\ ~alerts[id].acknowledged
    /\ alerts' = Acknowledge(alerts, id, "operator", now)
    /\ UNCHANGED <<repo, metrics, now, orphans, rules, readers, evalVars, sweepVars,
                   notifications, envVars, loadVars, seedVars>>

\* history: the open alerts of rule r
OpenOf(r) == {a \in DOMAIN alerts : alerts[a].rule_id = r /\ ~alerts[a].acknowledged}

\* a rule is disabled in the repository
DisableRule(r) ==
    /\ repo[r].present
    /\ repo[r].enabled
    /\ repo' = [repo EXCEPT ![r].enabled = FALSE]
    /\ orphans' = orphans \cup OpenOf(r)
    /\ UNCHANGED <<metrics, alerts, now, rules, readers, evalVars, sweepVars, notifications,
                   envVars, loadVars, seedVars>>

\* a rule is deleted from the repository
DeleteRule(r) ==
    /\ repo[r].present
    /\ repo' = [repo EXCEPT ![r].present = FALSE]
    /\ orphans' = orphans \cup OpenOf(r)
    /\ UNCHANGED <<metrics, alerts, now, rules, readers, evalVars, sweepVars, notifications,
                   envVars, loadVars, seedVars>>

\* a rule is edited in the repository: it loses its name and gets another severity
EditRule(r) ==
    /\ repo[r].present
    /\ repo[r].name # ""
    /\ repo' = [repo EXCEPT ![r].name = "", ![r].severity = "info"]
    /\ UNCHANGED <<metrics, alerts, now, orphans, rules, readers, evalVars, sweepVars,
                   notifications, envVars, loadVars, seedVars>>

\* POST /api/v1/rules: a rule on a sampled metric is stored under an id not used before;
\* enabled defaults to true
PostRule(r) ==
    /\ ~repo[r].present
    /\ \E row \in PostedRows :
        /\ row.metric_name \in SampledMetrics
        /\ repo' = [repo EXCEPT ![r] = row]
    /\ UNCHANGED <<metrics, alerts, now, orphans, rules, readers, evalVars, sweepVars,
                   notifications, envVars, loadVars, seedVars>>

\* a disabled rule is enabled again in the repository
EnableRule(r) ==
    /\ repo[r].present
    /\ ~repo[r].enabled
    /\ repo' = [repo EXCEPT ![r].enabled = TRUE]
    /\ UNCHANGED <<metrics, alerts, now, orphans, rules, readers, evalVars, sweepVars,
                   notifications, envVars, loadVars, seedVars>>

\* the store becomes unreachable
StoreDown ==
    /\ ~down
    /\ down' = TRUE
    /\ UNCHANGED <<storeVars, rules, readers, evalVars, sweepVars, notifications, ctx, cancelAt,
                   ticker, webhook, loadVars, seedVars>>

\* the store is reachable again
StoreUp ==
    /\ down
    /\ down' = FALSE
    /\ UNCHANGED <<storeVars, rules, readers, evalVars, sweepVars, notifications, ctx, cancelAt,
                   ticker, webhook, loadVars, seedVars>>

\* sendNotifications, in its own goroutine: a log line when a webhook is configured
sendNotifications(n) ==
    /\ n \in DOMAIN notifications
    /\ notifications[n].state = "started"
    /\ notifications' = [notifications EXCEPT ![n].state = IF webhook THEN "sent" ELSE "dropped"]
    /\ UNCHANGED <<storeVars, rules, readers, evalVars, sweepVars, envVars, loadVars, seedVars>>

\* the process is restarted: its goroutines are gone, NewAlertService loads the rules again
NewAlertService ==
    /\ rules' \in LoadRules(repo)
    /\ readers' = {}
    /\ pc' = [w \in Workers |-> "idle"]
    /\ call' = [w \in Workers |-> IdleCall]
    /\ hist' = [w \in Workers |-> NoHist]
    /\ loopPc' = "idle"
    /\ lookup' = NoLookup
    /\ rows' = {}
    /\ begun' = NotBegun
    /\ active' = 0
    /\ UNCHANGED <<storeVars, notifications, envVars, loadVars, seedVars>>

\* seedAlertRules: the loop position after the iteration for seed i
NextSeed(i) == IF i = Len(SeedRules) THEN SeedIdle ELSE [i |-> i + 1, at |-> "check"]

\* Migrate calls seedAlertRules
seedStart ==
    /\ seedPc.at = "idle"
    /\ runs < MaxRuns
    /\ seedPc' = [i |-> 1, at |-> "check"]
    /\ runs' = runs + 1
    /\ UNCHANGED <<storeVars, rules, readers, evalVars, sweepVars, notifications, envVars,
                   loadVars, catalog>>

\* seedAlertRules: the existence query for one seed; an error returns from the run
seedCheck ==
    /\ seedPc.at = "check"
    /\ seedPc' = IF down THEN SeedIdle
                 ELSE IF Exists(catalog, SeedRules[seedPc.i].name,
                                SeedRules[seedPc.i].metric_name)
                      THEN NextSeed(seedPc.i)
                      ELSE [seedPc EXCEPT !.at = "insert"]
    /\ UNCHANGED <<storeVars, rules, readers, evalVars, sweepVars, notifications, envVars,
                   loadVars, catalog, runs>>

\* seedAlertRules: INSERT INTO alert_rules for a seed the query did not find; an error
\* returns from the run
seedInsert ==
    /\ seedPc.at = "insert"
    /\ IF down
       THEN /\ seedPc' = SeedIdle
            /\ UNCHANGED catalog
       ELSE /\ catalog' = Append(catalog, SeedRules[seedPc.i])
            /\ seedPc' = NextSeed(seedPc.i)
    /\ UNCHANGED <<storeVars, rules, readers, evalVars, sweepVars, notifications, envVars,
                   loadVars, runs>>

----------------------------------------------------------------------------
(* Specifications *)

\* mutant of Evaluate: the goroutine that evaluates samples also runs loadRules
EvaluateReloading(w, names) ==
    \/ \E m \in Machines, n \in names, v \in Values : CheckMetric(w, m, n, v)
    \/ createAlertQuery(w)
    \/ createAlertInsert(w)
    \/ CheckMetricReturn(w)
    \/ loadQuery
    \/ loadRow
    \/ loadInstall

Evaluate(w, names) ==
    \/ \E m \in Machines, n \in names, v \in Values : CheckMetric(w, m, n, v)
    \/ createAlertQuery(w)
    \/ createAlertInsert(w)
    \/ CheckMetricReturn(w)

Sweep ==
    \/ resolveAlerts
    \/ resolveQuery
    \/ resolveRow
    \/ resolveReturn

Ingestion == \E m \in Machines, n \in SampledMetrics, v \in Values : ingest(m, n, v)

Operator == \E id \in 1..MaxAlerts : OperatorAcknowledge(id)

Repository ==
    \/ \E r \in RuleIds : DisableRule(r)
    \/ \E r \in RuleIds : DeleteRule(r)
    \/ NewAlertService

\* concurrent CheckMetric calls, the sweep, ingestion and an operator
Next ==
    \/ \E w \in Workers : Evaluate(w, SampledMetrics)
    \/ Sweep
    \/ Ingestion
    \/ Operator

Spec == Init /\ [][Next]_vars

\* CheckMetric calls one at a time, and a clock that moves
NextSerial ==
    \/ Evaluate(1, SampledMetrics)
    \/ Sweep
    \/ Ingestion
    \/ Operator
    \/ Tick

SpecSerial == Init /\ [][NextSerial]_vars

\* CheckMetric calls one at a time, no operator, and a repository that changes under the
\* running engine
NextRepo ==
    \/ Evaluate(1, SampledMetrics)
    \/ Sweep
    \/ Ingestion
    \/ Repository

SpecRepo == Init /\ [][NextRepo]_vars

\* CheckMetric calls one at a time, rules that are edited, and restarts that load them
NextEdit ==
    \/ Evaluate(1, SampledMetrics)
    \/ Sweep
    \/ Ingestion
    \/ \E r \in RuleIds : EditRule(r)
    \/ NewAlertService

SpecEdit == Init /\ [][NextEdit]_vars

\* the first seeded rule is there, the other id is not used yet
InitLive ==
    /\ repo = [r \in RuleIds |->
                IF r = "r1" THEN SeedRow(r) ELSE [SeedRow(r) EXCEPT !.present = FALSE]]
    /\ Started

\* CheckMetric calls one at a time, under a repository whose rules are created, edited,
\* disabled and enabled while the engine runs
NextLive ==
    \/ Evaluate(1, SampledMetrics)
    \/ \E r \in RuleIds : PostRule(r)
    \/ \E r \in RuleIds : EditRule(r)
    \/ \E r \in RuleIds : DisableRule(r)
    \/ \E r \in RuleIds : EnableRule(r)

SpecLive == InitLive /\ [][NextLive]_vars

Outage ==
    \/ StoreDown
    \/ StoreUp

Notifier == \E n \in 1..MaxAlerts : sendNotifications(n)

\* CheckMetric calls one at a time and the sweep, on a store that comes and goes
NextFail ==
    \/ Evaluate(1, SampledMetrics)
    \/ Sweep
    \/ Ingestion
    \/ Outage

SpecFail == Init /\ [][NextFail]_vars

\* the same, with a ticker that keeps ticking and store calls that return
SpecFailFair == Init /\ [][NextFail]_vars /\ WF_vars(Sweep)

\* the engine is started with or without a webhook
InitNotify ==
    /\ repo = [r \in RuleIds |-> SeedRow(r)]
    /\ Migrated
    /\ rules \in LoadRules(repo)
    /\ webhook \in BOOLEAN
    /\ Fresh

\* CheckMetric calls one at a time and the notification goroutines they start, on a store
\* that comes and goes and with an operator who acknowledges
NextNotify ==
    \/ Evaluate(1, SampledMetrics)
    \/ Operator
    \/ Outage
    \/ Notifier

SpecNotify == InitNotify /\ [][NextNotify]_vars

Loop ==
    \/ TickerFire
    \/ Cancel
    \/ loopExit

\* StartBackgroundChecks with its ticker and a context that is cancelled at some point,
\* beside CheckMetric calls and ingestion
NextLoop ==
    \/ Evaluate(1, SampledMetrics)
    \/ Sweep
    \/ Ingestion
    \/ Loop

\* every store call of the sweep returns, and the select, which picks at random among
\* the cases that are ready, does not pass over ctx.Done() for ever
SpecLoop ==
    /\ Init
    /\ [][NextLoop]_vars
    /\ WF_vars(resolveQuery \/ resolveRow \/ resolveReturn)
    /\ SF_vars(loopExit)

Load ==
    \/ loadQuery
    \/ loadRow
    \/ loadInstall

\* the first load has succeeded or has failed
InitLoad ==
    /\ repo = [r \in RuleIds |-> SeedRow(r)]
    /\ Migrated
    /\ rules \in LoadRules(repo) \cup {<<>>}
    /\ webhook = FALSE
    /\ Fresh

\* loadRules called again and again while CheckMetric and the sweep read the snapshot, with
\* rules that are edited
NextLoad ==
    \/ Evaluate(1, SampledMetrics)
    \/ Sweep
    \/ Load
    \/ \E r \in RuleIds : EditRule(r)

SpecLoad == InitLoad /\ [][NextLoad]_vars

\* loadRules called again and again on a store that comes and goes, with rules that are
\* edited
NextLoadFail ==
    \/ Load
    \/ \E r \in RuleIds : EditRule(r)
    \/ Outage

SpecLoadFail == InitLoad /\ [][NextLoadFail]_vars

\* CheckMetric alone, over every rule a client can post and every sample
NextEval == Evaluate(1, MetricNames)

SpecEval == InitEval /\ [][NextEval]_vars

\* Migrate run again and again, one run after the other, over a store that can fail
Seed ==
    \/ seedStart
    \/ seedCheck
    \/ seedInsert

NextSeeding ==
    \/ Seed
    \/ Outage

SpecSeed == InitSeed /\ [][NextSeeding]_vars

----------------------------------------------------------------------------
(* Vocabulary of the properties *)

\* the open alerts of a (machineId, ruleId) pair
OpenFor(m, r) ==
    {a \in DOMAIN alerts :
        alerts[a].machine_id = m /\ alerts[a].rule_id = r /\ alerts[a].acknowledged = FALSE}

\* compare(value, operator, threshold) over the four comparison operators
Holds(operator, value, threshold) ==
    \/ operator = ">" /\ value > threshold
    \/ operator = "<" /\ value < threshold
    \/ operator = ">=" /\ (value > threshold \/ value = threshold)
    \/ operator = "<=" /\ (value < threshold \/ value = threshold)

\* the rule is one for the sample's metric and the sample satisfies its condition
Fires(rule, metricName, value) ==
    rule.MetricName = metricName /\ Holds(rule.Operator, value, rule.ThresholdValue)

\* the step is the sweep's open-alert query
QueryStep == loopPc = "query" /\ loopPc' = "rows"

\* the step is the sweep's handling of one row of its query
RowStep == loopPc = "rows" /\ loopPc' = "rows" /\ rows' # rows

\* the row a RowStep handles
Scanned == CHOOSE row \in rows : row \notin rows'

----------------------------------------------------------------------------
(* C1: with CheckMetric calls one at a time and a store that does not fail, a
   (machine, rule) pair never has more than one open alert, and a call that
   stands before its insert has no open alert for its pair: a trigger that
   meets an open alert inserts no row. *)
C1_SerializedDedup ==
    /\ \A m \in Machines, r \in RuleIds : Cardinality(OpenFor(m, r)) <= 1
    /\ \A w \in Workers :
        pc[w] = "insert" => OpenFor(call[w].machine, rules[call[w].i].ID) = {}

\* a triggering call is over, it inserted nothing, and its pair has its one open alert
C1_RepeatSuppressed ==
    \E w \in Workers :
        /\ pc[w] = "return"
        /\ hist[w].made = {}
        /\ \E j \in DOMAIN rules :
            /\ Fires(rules[j], call[w].metric, call[w].value)
            /\ Cardinality(OpenFor(call[w].machine, rules[j].ID)) = 1

(* C2: under every interleaving of CheckMetric calls, sweeps and
   acknowledgements each (machineId, ruleId) pair has at most one alert with
   acknowledged = false. *)
C2_AtMostOneOpen ==
    \A m \in Machines, r \in RuleIds : Cardinality(OpenFor(m, r)) <= 1

(* C3: nothing ties the insert of createAlert to its existence check: a call
   that stands before the insert adds its open row whatever the table holds by
   then, so two calls that both passed the check leave two open alerts for one
   pair. *)
C3_InsertWithoutRecheck ==
    [][\A w \in Workers :
        (pc[w] = "insert" /\ pc'[w] # "insert") =>
            /\ Len(alerts') = Len(alerts) + 1
            /\ \A a \in DOMAIN alerts : alerts'[a] = alerts[a]
            /\ alerts'[Len(alerts')].machine_id = call[w].machine
            /\ alerts'[Len(alerts')].rule_id = rules[call[w].i].ID
            /\ alerts'[Len(alerts')].acknowledged = FALSE]_vars

\* two running calls have each inserted an alert for the same pair, and both are open
C3_DuplicateOpen ==
    \E w1, w2 \in Workers :
        /\ w1 # w2
        /\ \E a1 \in hist[w1].made, a2 \in hist[w2].made :
            /\ alerts[a1].machine_id = alerts[a2].machine_id
            /\ alerts[a1].rule_id = alerts[a2].rule_id
            /\ ~alerts[a1].acknowledged
            /\ ~alerts[a2].acknowledged

(* C4: when CheckMetric runs on through its loop, the rules it passes over do
   not fire, and it stops for createAlert at a rule exactly when that rule is in
   the snapshot, is a rule for the sample's metric and its comparison holds for
   one of the four operators; at the end of the snapshot it returns. *)
C4_ThresholdCorrectness ==
    [][\A w \in Workers :
        (/\ pc[w] \in {"idle", "createAlert", "insert"}
         /\ pc'[w] \in {"createAlert", "return"}
         /\ <<pc'[w], call'[w]>> # <<pc[w], call[w]>>) =>
            LET from == IF pc[w] = "idle" THEN 1 ELSE call[w].i + 1
                to == call'[w].i
                c == call'[w]
            IN  /\ to \in from..(Len(rules) + 1)
                /\ \A k \in from..(to - 1) : ~Fires(rules[k], c.metric, c.value)
                /\ pc'[w] = "createAlert" =>
                        to \in DOMAIN rules /\ Fires(rules[to], c.metric, c.value)
                /\ pc'[w] = "return" => to = Len(rules) + 1]_vars

\* createAlert is entered for a ">=" rule on a sample equal to its threshold
C4_FiresOnEqual ==
    \E w \in Workers :
        /\ pc[w] = "createAlert"
        /\ rules[call[w].i].Operator = ">="
        /\ call[w].value = rules[call[w].i].ThresholdValue

\* what the sweep does with the alert of a row whose rule is in its map
Decided(row) ==
    row.rule_id \in DOMAIN lookup =>
        IF /\ row.value # Nil
           /\ ~Holds(lookup[row.rule_id].Operator, row.value, lookup[row.rule_id].ThresholdValue)
        THEN /\ alerts'[row.id].acknowledged
             /\ alerts'[row.id].acknowledged_by = "system"
        ELSE alerts'[row.id] = alerts[row.id]

\* the sweep's query returns alert a with the latest sample of its machine and rule's metric
Returned(a) ==
    \E row \in rows' :
        /\ row.id = a
        /\ row.value = LatestValue(metrics, alerts[a].machine_id,
                                   lookup[alerts[a].rule_id].MetricName)

\* the most recent sample for the alert's machine and its rule's metric exists and no
\* longer satisfies the rule's comparison
Cleared(a) ==
    LET rule == lookup[alerts[a].rule_id]
        v == LatestValue(metrics, alerts[a].machine_id, rule.MetricName)
    IN  v # Nil /\ ~Holds(rule.Operator, v, rule.ThresholdValue)

(* C5 as claimed: a sweep takes up every open alert whose rule is in the
   snapshot and whose most recent sample no longer satisfies the rule's
   comparison, and acknowledges it; an alert it takes up whose sample still
   satisfies the comparison, or that has no sample, it leaves as it is. *)
C5_SnapshotRuleResolved ==
    [][/\ QueryStep =>
            \A a \in DOMAIN alerts :
                (/\ ~alerts[a].acknowledged
                 /\ alerts[a].rule_id \in DOMAIN lookup
                 /\ Cleared(a))
                    => Returned(a)
       /\ RowStep => Decided(Scanned)]_vars

(* C5 as amended: the same for every open alert whose rule is in the snapshot
   and still has its row in alert_rules when the sweep queries. *)
C5_StoredRuleResolved ==
    [][/\ QueryStep =>
            \A a \in DOMAIN alerts :
                (/\ ~alerts[a].acknowledged
                 /\ alerts[a].rule_id \in DOMAIN lookup
                 /\ repo[alerts[a].rule_id].present
                 /\ Cleared(a))
                    => Returned(a)
       /\ RowStep => Decided(Scanned)]_vars

\* a sweep has handled all its rows: it closed one alert and left an older one open whose
\* latest sample still satisfies its rule
C5_ClosedOneKeptOne ==
    /\ loopPc = "rows"
    /\ rows = {}
    /\ \E a, b \in DOMAIN alerts :
        /\ b < a
        /\ alerts[a].acknowledged_by = "system"
        /\ ~alerts[b].acknowledged
        /\ alerts[b].rule_id \in DOMAIN lookup
        /\ LET v == LatestValue(metrics, alerts[b].machine_id,
                                lookup[alerts[b].rule_id].MetricName)
           IN v # Nil /\ Holds(lookup[alerts[b].rule_id].Operator, v,
                               lookup[alerts[b].rule_id].ThresholdValue)

(* C6: no step changes an alert from acknowledged = true to acknowledged =
   false, and no step removes an acknowledged alert. *)
C6_AcknowledgedStays ==
    [][\A a \in DOMAIN alerts :
        alerts[a].acknowledged => (a \in DOMAIN alerts' /\ alerts'[a].acknowledged)]_vars

\* an operator acknowledged an alert that the running sweep still has a row for
C6_AcknowledgedBeforeScan ==
    \E row \in rows : alerts[row.id].acknowledged

(* C7: a sweep does not rewrite an alert that is already acknowledged: its
   acknowledged, acknowledgedBy and acknowledgedAt values stay as they are,
   also when an operator acknowledged it after the sweep's query. *)
C7_ResolveIdempotent ==
    [][RowStep => \A a \in DOMAIN alerts : alerts[a].acknowledged => alerts'[a] = alerts[a]]_vars

C9_UnknownValueAcknowledged ==
    [][RowStep =>
        ((Scanned.rule_id \in DOMAIN lookup /\ Scanned.value = Nil) =>
            /\ alerts'[Scanned.id].acknowledged
            /\ alerts'[Scanned.id].acknowledged_by = "system"
            /\ alerts'[Scanned.id].acknowledged_at = now)]_vars

(* C9 as amended: a sweep that finds an open alert for which no sample exists
   leaves the alert table as it is: the alert stays open. *)
C9_UnknownValueLeftOpen ==
    [][RowStep => (Scanned.value = Nil => alerts' = alerts)]_vars

\* the sweep has handled the row of alert 1 and has the row of alert 2 left; alert 1 is
\* open, its rule is in the map and its machine has no sample
C9_ScannedWithoutSample ==
    /\ loopPc = "rows"
    /\ Len(alerts) = 2
    /\ {row.id : row \in rows} = {2}
    /\ ~alerts[1].acknowledged
    /\ alerts[1].rule_id \in DOMAIN lookup
    /\ LatestValue(metrics, alerts[1].machine_id, lookup[alerts[1].rule_id].MetricName) = Nil

(* C10: a CheckMetric call that began on a machine with no open alert has, when
   its loop is over, inserted exactly one alert for each rule that fires on the
   sample, with that rule's id and severity: the open alert of one rule does
   not keep the next rule from getting its own. *)
C10_IndependentRules ==
    \A w \in Workers :
        (pc[w] = "return" /\ hist[w].clean) =>
            LET firing == {j \in DOMAIN rules : Fires(rules[j], call[w].metric, call[w].value)}
            IN  /\ Cardinality(hist[w].made) = Cardinality(firing)
                /\ \A j \in firing :
                    \E a \in hist[w].made :
                        /\ alerts[a].machine_id = call[w].machine
                        /\ alerts[a].rule_id = rules[j].ID
                        /\ alerts[a].severity = rules[j].Severity

\* one call on a machine without open alerts is over and left two open alerts, one per
\* rule, of different severities
C10_TwoAlertsOneSample ==
    \E w \in Workers :
        /\ pc[w] = "return"
        /\ hist[w].clean
        /\ \E a, b \in hist[w].made :
            /\ alerts[a].rule_id # alerts[b].rule_id
            /\ alerts[a].severity # alerts[b].severity
            /\ ~alerts[a].acknowledged
            /\ ~alerts[b].acknowledged

\* the text starts with the prefix
StartsWith(text, prefix) ==
    Len(text) >= Len(prefix) /\ SubSeq(text, 1, Len(prefix)) = prefix

(* C11: the row a createAlert inserts has the severity of the rule that fired
   and a message that starts with that rule's name, or with its metric name
   when the name is empty, as the snapshot holds them at that step; no step of
   the engine and no edit of a rule changes the severity or the message of an
   alert that exists. *)
C11_SeverityAndNameCaptured ==
    [][/\ \A a \in DOMAIN alerts :
            /\ a \in DOMAIN alerts'
            /\ alerts'[a].severity = alerts[a].severity
            /\ alerts'[a].message = alerts[a].message
       /\ \A w \in Workers :
            (pc[w] = "insert" /\ Len(alerts') = Len(alerts) + 1) =>
                LET rule == rules[call[w].i]
                    row == alerts'[Len(alerts')]
                IN  /\ row.severity = rule.Severity
                    /\ StartsWith(row.message,
                                  IF rule.Name = "" THEN rule.MetricName ELSE rule.Name)]_vars

\* an alert closed by a sweep keeps the name and severity its rule had before the rule was
\* edited and loaded again, and a later alert of that rule starts with the metric name
C11_EditedAfterCreation ==
    \E a, b \in DOMAIN alerts, j \in DOMAIN rules :
        /\ a < b
        /\ alerts[a].rule_id = rules[j].ID
        /\ alerts[b].rule_id = rules[j].ID
        /\ rules[j].Name = ""
        /\ alerts[a].acknowledged_by = "system"
        /\ alerts[a].severity # rules[j].Severity
        /\ StartsWith(alerts[a].message, "Motor Temperature")
        /\ alerts[b].severity = rules[j].Severity
        /\ StartsWith(alerts[b].message, rules[j].MetricName)

(* C12: while a CheckMetric call holds the read lock the snapshot does not
   change, the sweep builds its map from the whole snapshot in one step that
   leaves the snapshot alone, and the snapshot changes only when a load, with no
   reader holding the lock, installs the whole list it has built. *)
C12_SnapshotConsistent ==
    [][/\ \A w \in Workers : (w \in readers /\ w \in readers') => rules' = rules
       /\ (loopPc = "idle" /\ loopPc' = "query") => (lookup' = Lookup(rules) /\ rules' = rules)
       /\ rules' # rules => (loadPc = "lock" /\ readers = {} /\ rules' = loaded)]_vars

\* a load has built a list that differs from the snapshot and waits for the lock, which a
\* CheckMetric call holds between the existence query and the insert of createAlert
C12_ReaderDuringLoad ==
    \E w \in Workers :
        /\ w \in readers
        /\ pc[w] = "insert"
        /\ loadPc = "lock"
        /\ loadErr = ""
        /\ Len(loaded) = Len(rules)
        /\ loaded # rules

(* C13: a load in which the repository failed, at the query or while the rows
   were read, leaves the snapshot as it was. *)
C13_LoadFailureKeepsSnapshot ==
    [][loadErr' # "" => rules' = rules]_vars

(* C14: at most one resolveAlerts call is in progress, and no step taken while
   the loop is inside resolveAlerts, a tick that arrives then among them,
   starts another. *)
C14_SweepsNotReentrant ==
    [][/\ active' <= 1
       /\ loopPc \in {"query", "rows"} =>
            (active' <= active /\ (lookup' = lookup \/ loopPc' = "idle"))]_vars

\* a tick has arrived while the sweep is handling its rows, and waits in ticker.C
C14_TickDuringSweep ==
    /\ ticker = 1
    /\ loopPc = "rows"
    /\ rows # {}
    /\ active = 1

(* C15: once ctx is cancelled, StartBackgroundChecks eventually returns, given
   that every store call returns. *)
C15_CancelTerminates ==
    (ctx = "cancelled") ~> (loopPc = "done")

\* the loop has returned after a cancellation that came while the sweep was handling
\* its rows
C15_ReturnedFromSweep ==
    /\ loopPc = "done"
    /\ cancelAt.position = "rows"
    /\ cancelAt.returned

\* ctx was cancelled while the sweep was in the store call it is about to return from
InFlight ==
    /\ ctx = "cancelled"
    /\ loopPc \in {"query", "rows"}
    /\ cancelAt.position = loopPc
    /\ ~cancelAt.returned

(* C16: a store call of the sweep that was in flight when ctx was cancelled
   returns with its normal effect: the open-alert query delivers its rows, the
   row in hand is acknowledged when its condition has cleared. *)
C16_InFlightCallCompletes ==
    [][InFlight =>
        /\ (loopPc = "query" /\ loopPc' # "query") =>
                (loopPc' = "rows" /\ rows' = OpenAlertRows(alerts, repo, metrics))
        /\ RowStep => Decided(Scanned)]_vars

(* C17: when the store rejects the insert of createAlert, the alert table and
   the notifications stay as they are and CheckMetric goes on with the rules
   after the one in hand: it passes over those that do not fire and stops for
   createAlert at the next that does, or returns; no rule gets a second insert
   attempt in one call. *)
C17_InsertFailureSkipsRule ==
    [][\A w \in Workers :
        /\ \A p, q \in DOMAIN hist'[w].tried :
                hist'[w].tried[p] = hist'[w].tried[q] => p = q
        /\ (pc[w] = "insert" /\ down /\ <<pc'[w], call'[w]>> # <<pc[w], call[w]>>) =>
                LET to == call'[w].i IN
                /\ alerts' = alerts
                /\ notifications' = notifications
                /\ to \in (call[w].i + 1)..(Len(rules) + 1)
                /\ \A k \in (call[w].i + 1)..(to - 1) :
                        ~Fires(rules[k], call[w].metric, call[w].value)
                /\ pc'[w] = "createAlert" =>
                        to \in DOMAIN rules /\ Fires(rules[to], call[w].metric, call[w].value)
                /\ pc'[w] = "return" => to = Len(rules) + 1]_vars

\* a call is over its loop: the insert for the first rule was rejected, the insert for the
\* second rule made the only alert there is
C17_FailedThenInserted ==
    \E w \in Workers :
        /\ pc[w] = "return"
        /\ hist[w].tried = <<1, 2>>
        /\ hist[w].made = {1}
        /\ Len(alerts) = 1
        /\ alerts[1].rule_id = rules[2].ID
        /\ Len(notifications) = 1

(* C18: a createAlert whose existence query failed with a store error inserts
   no alert: a row is inserted only by a call whose query found no open alert
   for its pair. *)
C18_InsertOnlyAfterNotFound ==
    [][\A w \in Workers :
        (pc[w] = "insert" /\ Len(alerts') = Len(alerts) + 1) =>
            hist[w].checked = "none"]_vars

(* C19: a notification goroutine is started only in the step that inserts an
   alert row, one for that row with its severity and message, and createAlert
   does not wait for it; the goroutine's run, with or without a webhook, leaves
   the alert table as it is. *)
C19_NotificationAdvisory ==
    [][/\ Len(notifications') >= Len(notifications)
       /\ Len(notifications') > Len(notifications) =>
            /\ Len(notifications') = Len(notifications) + 1
            /\ Len(alerts') = Len(alerts) + 1
            /\ notifications'[Len(notifications')] =
                    [severity |-> alerts'[Len(alerts')].severity,
                     message |-> alerts'[Len(alerts')].message,
                     state |-> "started"]
            /\ \E w \in Workers : pc[w] = "insert" /\ pc'[w] \in {"createAlert", "return"}
       /\ (\E n \in DOMAIN notifications : notifications'[n] # notifications[n]) =>
            alerts' = alerts]_vars

\* a call is over its loop while the goroutine of the alert it inserted has not run yet; the
\* insert for its other rule was rejected and started none; no webhook is configured
C19_ReturnedBeforeSend ==
    \E w \in Workers :
        /\ pc[w] = "return"
        /\ Len(hist[w].tried) = 2
        /\ Cardinality(hist[w].made) = 1
        /\ Len(notifications) = 1
        /\ notifications[1].state = "started"
        /\ ~webhook

\* the step is one of the engine, not of an operator
EngineStep == pc' # pc \/ loopPc' # loopPc \/ rows' # rows

(* C20: an alert that the sweep writes is acknowledged after the write, with
   acknowledgedBy = "system" and acknowledgedAt the time of the write, which is
   not null; no step of the engine makes an alert acknowledged with another
   acknowledgedBy. *)
C20_SystemAttribution ==
    [][\A a \in DOMAIN alerts :
        /\ (RowStep /\ alerts'[a] # alerts[a]) =>
                /\ alerts'[a].acknowledged
                /\ alerts'[a].acknowledged_by = "system"
                /\ alerts'[a].acknowledged_at = now
                /\ alerts'[a].acknowledged_at # 0
        /\ (EngineStep /\ ~alerts[a].acknowledged /\ alerts'[a].acknowledged) =>
                alerts'[a].acknowledged_by = "system"]_vars

\* the sweep has acknowledged one alert after the clock moved, an operator another
C20_SystemAndOperator ==
    \E a, b \in DOMAIN alerts :
        /\ alerts[a].acknowledged_by = "system"
        /\ alerts[a].acknowledged_at = MaxClock
        /\ alerts[b].acknowledged_by = "operator"

\* the rule is stored and enabled in the repository and the sample satisfies its condition
FiresStored(r, metricName, value) ==
    /\ repo[r].present
    /\ repo[r].enabled
    /\ repo[r].metric_name = metricName
    /\ Holds(repo[r].operator, value, repo[r].threshold_value)

(* C21: in a running engine the snapshot never changes, whatever is created,
   edited, disabled or enabled in the repository, and every alert CheckMetric
   inserts is one of a rule of that snapshot whose condition, as the snapshot
   has it, the sample satisfies. *)
C21_NoLiveReload ==
    [][/\ rules' = rules
       /\ \A w \in Workers :
            (pc[w] = "insert" /\ Len(alerts') = Len(alerts) + 1) =>
                \E j \in DOMAIN rules :
                    /\ alerts'[Len(alerts')].rule_id = rules[j].ID
                    /\ alerts'[Len(alerts')].severity = rules[j].Severity
                    /\ Fires(rules[j], call[w].metric, call[w].value)]_vars

\* a call is over its loop: it opened an alert for a rule that is disabled in the
\* repository and has lost its name there, and none for a posted rule that the sample fires
C21_StaleSnapshotUsed ==
    \E w \in Workers, r \in RuleIds :
        /\ pc[w] = "return"
        /\ FiresStored(r, call[w].metric, call[w].value)
        /\ \A a \in DOMAIN alerts : alerts[a].rule_id # r
        /\ \E a \in hist[w].made :
            /\ ~repo[alerts[a].rule_id].enabled
            /\ repo[alerts[a].rule_id].name = ""
            /\ StartsWith(alerts[a].message, "Motor Temperature High")

\* the alert's rule is in the snapshot and the latest sample of its machine and its rule's
\* metric does not satisfy the rule's condition
ClearedNow(a) ==
    \E j \in DOMAIN rules :
        /\ rules[j].ID = alerts[a].rule_id
        /\ LET v == LatestValue(metrics, alerts[a].machine_id, rules[j].MetricName)
           IN  v # Nil /\ ~Holds(rules[j].Operator, v, rules[j].ThresholdValue)

(* C22: a sweep whose store call for a row fails leaves every alert as it is
   and stays in its loop over the rows; the query of a sweep returns every open
   alert whose rule has its row, whatever failed before; and an alert whose
   condition stays cleared from some time on, with the store reachable from
   then on, is eventually acknowledged. *)
C22_FailedUpdateRetried ==
    /\ [][/\ (loopPc = "rows" /\ rows' # rows /\ down) =>
                (alerts' = alerts /\ loopPc' = "rows" /\ active' = active)
          /\ QueryStep =>
                \A a \in DOMAIN alerts :
                    (~alerts[a].acknowledged /\ repo[alerts[a].rule_id].present) =>
                        \E row \in rows' : row.id = a]_vars
    /\ \A a \in 1..MaxAlerts :
            <>[](a \in DOMAIN alerts /\ ~down /\ ClearedNow(a)) =>
                <>(a \in DOMAIN alerts /\ alerts[a].acknowledged)

\* the sweep read a cleared sample for both open alerts, has handled the row of alert 1,
\* which is still open, and goes on with the row of alert 2
C22_FailedRowLeftOpen ==
    /\ loopPc = "rows"
    /\ Len(alerts) = 2
    /\ \E row \in rows : row.id = 2 /\ row.value = 68
    /\ \A row \in rows : row.id # 1
    /\ ~alerts[1].acknowledged
    /\ ClearedNow(1)
    /\ Resolves(lookup, [id |-> 1, machine_id |-> alerts[1].machine_id,
                         rule_id |-> alerts[1].rule_id, value |-> 68])

(* C23: once ctx is cancelled the loop does not enter resolveAlerts again, and
   no alert is acknowledged by a sweep's step taken under a cancelled ctx that
   was cancelled before that sweep's store call began. *)
C23_NoSweepAfterCancel ==
    [][ctx = "cancelled" =>
        /\ ~(loopPc = "idle" /\ loopPc' = "query")
        /\ (RowStep /\ ~InFlight) => alerts' = alerts]_vars

(* C24: the sweep's step for a row whose rule id is not a key of the map built
   at the start of that sweep writes nothing: the alert keeps acknowledged,
   acknowledgedBy and acknowledgedAt, whatever value the row carries. *)
C24_LookupMissUnchanged ==
    [][RowStep => (Scanned.rule_id \notin DOMAIN lookup => alerts' = alerts)]_vars

\* the sweep has handled the row of an open alert whose rule has its row in the repository
\* but is not in the map, once with a sample that cleared its condition; it has a row left
C24_MissHandledRowsLeft ==
    /\ loopPc = "rows"
    /\ rows # {}
    /\ \E a \in DOMAIN alerts :
        /\ ~alerts[a].acknowledged
        /\ \A row \in rows : row.id # a /\ row.value = 68
        /\ alerts[a].rule_id \notin DOMAIN lookup
        /\ repo[alerts[a].rule_id].present
        /\ repo[alerts[a].rule_id].metric_name = "temperature"
        /\ metrics[<<alerts[a].machine_id, "temperature">>] = 68

(* C25: the list a load installs is exactly the result of its query, which
   holds every rule with enabled = true in the repository at that time and no
   other: no row of the result is missing from the snapshot. *)
C25_LoadComplete ==
    [][/\ (loadPc = "idle" /\ loadPc' = "rows") =>
            {queried'[i].ID : i \in DOMAIN queried'} = EnabledIds(repo)
       /\ (loadPc = "lock" /\ loadPc' = "idle") => rules' = queried]_vars

\* the open alerts of a table, without their ids
OpenSet(table) ==
    {[machine_id |-> table[a].machine_id, rule_id |-> table[a].rule_id,
      severity |-> table[a].severity, message |-> table[a].message] :
        a \in {b \in DOMAIN table : ~table[b].acknowledged}}

\* the alert table as the running call of w found it
Before(w) == SubSeq(alerts, 1, Len(alerts) - Cardinality(hist[w].made))

\* the text of the alert of a rule for a sample, two decimals each
Text(rule, value) ==
    (IF rule.Name = "" THEN rule.MetricName ELSE rule.Name)
        \o " - value: " \o ToString(value) \o ".00"
        \o " (threshold: " \o ToString(rule.ThresholdValue) \o ".00)"

(* C26: when a CheckMetric call on an otherwise untouched alert store is over,
   the open alerts are those the store had before plus one for every rule of
   the snapshot that fires on the sample and had no open alert for the machine:
   a set that does not depend on the order of the rules in the snapshot. *)
C26_OrderIrrelevant ==
    \A w \in Workers :
        pc[w] = "return" =>
            LET ruleSet == {rules[j] : j \in DOMAIN rules}
                new == {r \in ruleSet :
                            /\ Fires(r, call[w].metric, call[w].value)
                            /\ \A o \in OpenSet(Before(w)) :
                                    ~(o.machine_id = call[w].machine /\ o.rule_id = r.ID)}
            IN  OpenSet(alerts) =
                    OpenSet(Before(w)) \cup
                        {[machine_id |-> call[w].machine, rule_id |-> r.ID,
                          severity |-> r.Severity, message |-> Text(r, call[w].value)] :
                            r \in new}

\* a call is over that opened an alert for each of two rules, the snapshot holding the
\* second rule of the repository first
C26_SecondRuleFirst ==
    \E w \in Workers :
        /\ pc[w] = "return"
        /\ Cardinality(hist[w].made) = 2
        /\ rules[1].ID = "r2"
        /\ alerts[1].rule_id = "r2"
        /\ alerts[2].rule_id = "r1"

(* C27: a CheckMetric call that stands at a store call of createAlert, the
   existence query or the insert, does not hold the read lock of the snapshot,
   so that a load that wants to install its list does not wait for it. *)
C27_NoLockDuringStoreCall ==
    \A w \in Workers :
        pc[w] \in {"createAlert", "insert"} =>
            /\ w \notin readers
            /\ loadPc = "lock" => CanLock(readers)

\* the two rows differ at most in the acknowledgement columns
SameButAcknowledgement(new, old) ==
    /\ new.machine_id = old.machine_id
    /\ new.rule_id = old.rule_id
    /\ new.severity = old.severity
    /\ new.message = old.message

(* C28: a step of CheckMetric or createAlert leaves every existing alert as it
   is and removes none; a step of the sweep adds and removes no alert and
   changes only acknowledgement columns, and those only of alerts its query
   returned; neither writes the rule repository or the samples. *)
C28_SeparationOfEffects ==
    [][/\ pc' # pc =>
            /\ Len(alerts') >= Len(alerts)
            /\ \A a \in DOMAIN alerts : alerts'[a] = alerts[a]
            /\ repo' = repo
            /\ metrics' = metrics
       /\ (loopPc' # loopPc \/ rows' # rows) =>
            /\ Len(alerts') = Len(alerts)
            /\ \A a \in DOMAIN alerts :
                    alerts'[a] # alerts[a] =>
                        /\ a \in {row.id : row \in rows}
                        /\ SameButAcknowledgement(alerts'[a], alerts[a])
            /\ repo' = repo
            /\ metrics' = metrics]_vars

\* the sweep closed the first alert of a pair, a later call opened the second next to it
C28_ClosedThenReopened ==
    /\ Len(alerts) = 2
    /\ alerts[1].acknowledged_by = "system"
    /\ ~alerts[2].acknowledged
    /\ alerts[2].rule_id = alerts[1].rule_id
    /\ alerts[2].machine_id = alerts[1].machine_id
    /\ alerts[2].message # alerts[1].message

\* a call of seedAlertRules returns nil in this step
SeedReturnsNil == seedPc.at # "idle" /\ seedPc'.at = "idle" /\ ~down

(* C29: over runs of seedAlertRules made one after the other, on a table that
   holds no seeded pair of name and metric twice, no step modifies or removes
   a row that exists, no seeded pair ever has more than one row, and when a
   run returns without error every seeded pair has exactly one row. *)
C29_SeedingIdempotent ==
    [][/\ Len(catalog') >= Len(catalog)
       /\ \A k \in DOMAIN catalog : catalog'[k] = catalog[k]
       /\ \A i \in DOMAIN SeedRules :
              Count(catalog', SeedRules[i].name, SeedRules[i].metric_name) <= 1
       /\ SeedReturnsNil =>
              \A i \in DOMAIN SeedRules :
                  Count(catalog', SeedRules[i].name, SeedRules[i].metric_name) = 1]_vars

\* a third run is at the query for a seed that an earlier run inserted, in a table whose
\* first seed was changed before the first run
C29_LaterRunMeetsSeededRow ==
    /\ runs = MaxRuns
    /\ seedPc = [i |-> 2, at |-> "check"]
    /\ ~down
    /\ Len(catalog) = 3
    /\ catalog[1].name = SeedRules[1].name
    /\ catalog[1].severity = "info"
    /\ catalog[3] = SeedRules[2]

====
